---- MODULE Spec2Model ----
(***************************************************************************)
(* Model of ppsci/constraint/boundary_constraint.py: the constructors of   *)
(* BoundaryConstraint and SupervisedConstraint.  A constructor is one      *)
(* synchronous step from its arguments to either a packaged constraint     *)
(* (pc = "done") or a raised exception (pc = "failed").                    *)
(*                                                                         *)
(* Numbers are integers.  Time values are counted in units of 1e-8, so     *)
(* that numpy.isclose's default tolerances (atol = 1e-8, rtol = 1e-5) are  *)
(* exact integer arithmetic.                                               *)
(*                                                                         *)
(* A numeric value is a record [tag, v]:                                   *)
(*   tag = "arr"   a per-sample array, v its values (length = rows)        *)
(*   tag = "num"   a Python scalar, v = <<c>>                              *)
(*   tag = "arr0"  a 0-dimensional numpy array, v = <<c>>                  *)
(***************************************************************************)
EXTENDS Integers, Sequences, FiniteSets, TLC

VARIABLES pc, variant, args, input_keys, output_keys, input, label, weight,
          num_timestamp, branch, calls, err

vars == <<pc, variant, args, input_keys, output_keys, input, label, weight,
          num_timestamp, branch, calls, err>>

\* ------------------------------------------------------------------ bounds
MaxBatch == 2
MaxIters == 2
MaxRows == 2
MaxTimestamps == 2

\* ------------------------------------------------------------ basic values
Arr(s) == [tag |-> "arr", v |-> s]
Num(c) == [tag |-> "num", v |-> <<c>>]
Arr0(c) == [tag |-> "arr0", v |-> <<c>>]

Abs(n) == IF n < 0 THEN -n ELSE n

Range(s) == {s[i] : i \in DOMAIN s}

EmptyMap == [k \in {} |-> Arr(<<>>)]

Put(m, k, val) == [x \in (DOMAIN m) \cup {k} |-> IF x = k THEN val ELSE m[x]]

NoErr == [type |-> "none", about |-> ""]

\* raise NotImplementedError(f"type of {type(value)} is invalid yet.")
InvalidType(value) == [type |-> "NotImplementedError", about |-> value.type]

\* next(iter(d.values())) on an empty dict
StopIteration == [type |-> "StopIteration", about |-> ""]

\* np.full_like(ref, c): the shape of ref, every element c
FullLike(ref, c) ==
    IF ref.tag = "arr" THEN Arr([i \in 1..Len(ref.v) |-> c]) ELSE Arr0(c)

\* np.ones_like(ref)
OnesLike(ref) == FullLike(ref, 1)

\* ------------------------------------------------------------ value specs
\* sympy expression trees: a constant, or  var + c
ConstExpr(c) == [op |-> "const", c |-> c]
AddExpr(x, c) == [op |-> "add", var |-> x, c |-> c]

FloatSpec(c) == [type |-> "float", c |-> c]
StrSpec(s) == [type |-> "str", src |-> s]
SympySpec(e) == [type |-> "sympy", e |-> e]
FunctionSpec(r) == [type |-> "function", ret |-> r]
ListSpec == [type |-> "list"]

ValueSpecs ==
    { FloatSpec(2), StrSpec("x + 1"), SympySpec(ConstExpr(3)),
      SympySpec(AddExpr("x", 1)), FunctionSpec("scalar"),
      FunctionSpec("array"), ListSpec }

\* sp_parser.parse_expr(src)
ParseExpr(src) ==
    IF src = "x + 1" THEN AddExpr("x", 1) ELSE ConstExpr(3)

\* sympy.lambdify(symbols, e, ...)(**fields): a constant expression compiles
\* to a function returning the Python scalar; an expression over a variable
\* is evaluated element-wise on that field.
Lambdify(e, fields) ==
    IF e.op = "const" THEN Num(e.c)
    ELSE Arr([i \in 1..Len(fields[e.var].v) |-> fields[e.var].v[i] + e.c])

\* A user callable applied to the input mapping: it returns either a Python
\* scalar or one value per sample.
CallFunction(f, fields, first) ==
    IF f.ret = "scalar" THEN Num(5)
    ELSE Arr([i \in 1..Len(fields[first].v) |-> fields[first].v[i] + 7])

\* ------------------------------------------------- collaborators (external)
Call(f, n) == [fn |-> f, n |-> n]

\* The dataset registry: getattr(dataset, name) succeeds for these names.
Registry == {"NamedArrayDataset"}

DatasetNames == {"NamedArrayDataset", "BogusDataset"}

GeomKinds == {"Rectangle", "Mesh"}

Geoms == {[kind |-> k, dim_keys |-> <<"x", "y">>] : k \in GeomKinds}

\* geom.sample_boundary(n, random, criteria, evenly): n points, one array
\* per coordinate of dim_keys; a Mesh also yields "area".
SampleBoundary(geom, n) ==
    LET coords == [k \in Range(geom.dim_keys) |->
                     Arr([i \in 1..n |-> IF k = "x" THEN i ELSE 2 * i])]
    IN IF geom.kind = "Mesh"
       THEN Put(coords, "area", Arr([i \in 1..n |-> i + 1]))
       ELSE coords

\* ------------------------------------------------------ BoundaryConstraint
DictKeys(d) == [i \in 1..Len(d) |-> d[i].k]

\* self.output_keys = list(label_dict.keys()) (+ ["area"] for a Mesh)
BoundaryOutputKeys(label_dict, geom) ==
    DictKeys(label_dict) \o (IF geom.kind = "Mesh" THEN <<"area">> ELSE <<>>)

\* batch_size * iters_per_epoch
SampleCount(cfg) == cfg.batch_size * cfg.iters_per_epoch

\* Mutant: the area is scaled again on a second pass.
ScaleArea_Twice(sampled, iters) ==
    IF "area" \in DOMAIN sampled
    THEN [sampled EXCEPT !["area"] =
            Arr([i \in 1..Len(@.v) |-> @.v[i] * iters * iters])]
    ELSE sampled

\* if "area" in input: input["area"] *= iters_per_epoch
ScaleArea(sampled, iters) ==
    IF "area" \in DOMAIN sampled
    THEN [sampled EXCEPT !["area"] =
            Arr([i \in 1..Len(@.v) |-> @.v[i] * iters])]
    ELSE sampled

\* One iteration of the label loop: the value stored for one label_dict
\* entry, or the exception raised.
LabelValue(value, inp, first) ==
    IF value.type = "float"
    THEN [err |-> NoErr, val |-> FullLike(inp[first], value.c)]
    ELSE IF value.type = "sympy"
    THEN [err |-> NoErr, val |-> Lambdify(value.e, inp)]
    ELSE IF value.type = "function"
    THEN LET got == CallFunction(value, inp, first)
         IN [err |-> NoErr,
             val |-> IF got.tag = "num"
                     THEN FullLike(inp[first], got.v[1]) ELSE got]
    ELSE [err |-> InvalidType(value), val |-> Num(0)]

RECURSIVE ResolveLabels(_, _, _, _, _)
\* for key, value in label_dict.items(): ...   (stops at the first raise)
ResolveLabels(label_dict, i, inp, first, acc) ==
    IF i > Len(label_dict) THEN [err |-> NoErr, map |-> acc]
    ELSE LET one == LabelValue(label_dict[i].s, inp, first)
         IN IF one.err # NoErr THEN [err |-> one.err, map |-> acc]
            ELSE ResolveLabels(label_dict, i + 1, inp, first,
                               Put(acc, label_dict[i].k, one.val))

\* Mutant: the weight mapping starts empty, without the defaults.
DefaultWeight_Missing(lab, order) ==
    [k \in {} |-> OnesLike(lab[order[1]])]

\* weight = {key: np.ones_like(next(iter(label.values()))) for key in label}
DefaultWeight(lab, order) ==
    [k \in DOMAIN lab |-> OnesLike(lab[order[1]])]

\* One iteration of the weight loop (the same code in both constructors).
WeightValue(value0, inp, first, lab, order) ==
    LET value == IF value0.type = "str"
                 THEN SympySpec(ParseExpr(value0.src)) ELSE value0
    IN IF value.type = "float"
       THEN IF DOMAIN lab = {} THEN [err |-> StopIteration, val |-> Num(0)]
            ELSE [err |-> NoErr, val |-> FullLike(lab[order[1]], value.c)]
       ELSE IF value.type = "sympy"
       THEN [err |-> NoErr, val |-> Lambdify(value.e, inp)]
       ELSE IF value.type = "function"
       THEN LET got == CallFunction(value, inp, first)
            IN [err |-> NoErr,
                val |-> IF got.tag = "num"
                        THEN FullLike(inp[first], got.v[1]) ELSE got]
       ELSE [err |-> InvalidType(value), val |-> Num(0)]

RECURSIVE WeightLoop(_, _, _, _, _, _, _)
WeightLoop(weight_dict, i, inp, first, lab, order, acc) ==
    IF i > Len(weight_dict) THEN [err |-> NoErr, map |-> acc]
    ELSE LET one == WeightValue(weight_dict[i].s, inp, first, lab, order)
         IN IF one.err # NoErr THEN [err |-> one.err, map |-> acc]
            ELSE WeightLoop(weight_dict, i + 1, inp, first, lab, order,
                            Put(acc, weight_dict[i].k, one.val))

\* The weight assembly: defaults, then "if weight_dict is not None: ...".
ResolveWeights(weight_dict, inp, first, lab, order) ==
    IF weight_dict.some
    THEN WeightLoop(weight_dict.d, 1, inp, first, lab, order,
                    DefaultWeight(lab, order))
    ELSE [err |-> NoErr, map |-> DefaultWeight(lab, order)]

\* Mutant: the base initializer runs before the registry lookup.
Package_InitFirst(r, name) ==
    IF name \in Registry
    THEN [r EXCEPT !.pc = "done",
                   !.calls = @ \o <<Call("base_init", 0), Call("dataset", 0)>>]
    ELSE [r EXCEPT !.pc = "failed",
                   !.calls = @ \o <<Call("base_init", 0)>>,
                   !.err = [type |-> "AttributeError", about |-> name]]

\* _dataset = getattr(dataset, cfg["dataset"])(input, label, weight)
\* super().__init__(_dataset, dataloader_cfg, loss, name)
Package(r, name) ==
    IF name \in Registry
    THEN [r EXCEPT !.pc = "done",
                   !.calls = @ \o <<Call("dataset", 0), Call("base_init", 0)>>]
    ELSE [r EXCEPT !.pc = "failed",
                   !.err = [type |-> "AttributeError", about |-> name]]

Raise(r, e) == [r EXCEPT !.pc = "failed", !.err = e]

\* BoundaryConstraint.__init__
BoundaryInit(a) ==
    LET n == SampleCount(a.cfg)
        inp == ScaleArea(SampleBoundary(a.geom, n), a.cfg.iters_per_epoch)
        first == a.geom.dim_keys[1]
        r0 == [pc |-> "new",
               input_keys |-> a.geom.dim_keys,
               output_keys |-> BoundaryOutputKeys(a.label_dict, a.geom),
               input |-> inp, label |-> EmptyMap, weight |-> EmptyMap,
               num_timestamp |-> 0, branch |-> "none",
               calls |-> <<Call("sample_boundary", n)>>, err |-> NoErr]
        labs == ResolveLabels(a.label_dict, 1, inp, first, EmptyMap)
        r1 == [r0 EXCEPT !.label = labs.map]
        order == DictKeys(a.label_dict)
        wts == ResolveWeights(a.weight_dict, inp, first, labs.map, order)
        r2 == [r1 EXCEPT !.weight = wts.map]
    IN IF labs.err # NoErr THEN Raise(r1, labs.err)
       ELSE IF wts.err # NoErr THEN Raise(r2, wts.err)
       ELSE Package(r2, a.cfg.dataset)

\* ---------------------------------------------------- SupervisedConstraint
\* [alias_dict[key] if key in alias_dict else key for key in keys]
AliasKeys(keys, alias_dict) ==
    [i \in 1..Len(keys) |->
        IF keys[i] \in DOMAIN alias_dict THEN alias_dict[keys[i]] ELSE keys[i]]

\* data_file.endswith(".csv")
EndsWithCsv(data_file) == data_file.ext = ".csv"

\* The content of the file: the time column is the argument's `times`, every
\* other column holds one distinct value per row.
ColumnBase(name) ==
    CASE name = "x" -> 10 [] name = "y" -> 20 [] name = "time" -> 30
      [] name = "u" -> 40 [] OTHER -> 50

FileColumn(name, times) ==
    IF name = "t" THEN times
    ELSE [i \in 1..Len(times) |-> ColumnBase(name) + i]

\* misc.load_csv_file(data_file, keys, alias_dict): one column per requested
\* key, stored under the key's alias.
LoadCsvFile(times, keys, alias_dict) ==
    [k \in Range(AliasKeys(keys, alias_dict)) |-> Arr(FileColumn(k, times))]

\* misc.convert_to_array(data, keys): the columns side by side, one row per
\* sample.
ConvertToArray(data, keys) ==
    [i \in 1..Len(data[keys[1]].v) |->
        [j \in 1..Len(keys) |-> data[keys[j]].v[i]]]

\* misc.convert_to_dict(array, keys): the columns again, by name.
ConvertToDict(array, keys) ==
    [k \in Range(keys) |->
        Arr([i \in 1..Len(array) |->
               array[i][CHOOSE j \in 1..Len(keys) : keys[j] = k]])]

RECURSIVE CombineArrayWithTime(_, _)
\* misc.combine_array_with_time(x, t): for every timestamp in turn, every
\* row of x with the timestamp put in front.
CombineArrayWithTime(x, t) ==
    IF t = <<>> THEN <<>>
    ELSE [i \in 1..Len(x) |-> <<t[1]>> \o x[i]]
         \o CombineArrayWithTime(x, Tail(t))

\* np.isclose(a, b): |a - b| <= atol + rtol * |b| with atol = 1e-8 (one unit)
\* and rtol = 1e-5.  |a - b| is a whole number of units, so comparing with
\* the floor of the right-hand side is exact.
IsClose(a, b) == Abs(a - b) <= 1 + (Abs(b) \div 100000)

\* Mutant: "mask =" instead of "mask |=": only the last timestamp counts.
TimeMask_Overwrite(raw, timestamps) ==
    IF timestamps = <<>> THEN [i \in 1..Len(raw) |-> FALSE]
    ELSE [i \in 1..Len(raw) |-> IsClose(raw[i], timestamps[Len(timestamps)])]

RECURSIVE TimeMask(_, _)
\* mask = zeros; for ti in timestamps: mask |= np.isclose(raw, ti)
TimeMask(raw, timestamps) ==
    IF timestamps = <<>> THEN [i \in 1..Len(raw) |-> FALSE]
    ELSE LET rest == TimeMask(raw, SubSeq(timestamps, 1, Len(timestamps) - 1))
             ti == timestamps[Len(timestamps)]
         IN [i \in 1..Len(raw) |-> rest[i] \/ IsClose(raw[i], ti)]

RECURSIVE MaskRows(_, _)
\* data[mask]
MaskRows(array, mask) ==
    IF array = <<>> THEN <<>>
    ELSE (IF Head(mask) THEN <<Head(array)>> ELSE <<>>)
         \o MaskRows(Tail(array), Tail(mask))

\* Mutant: "or" instead of "and".
MissingTime_Either(data, timestamps) ==
    "t" \notin DOMAIN data \/ ~timestamps.some

\* if "t" not in data and timestamps is None: raise ValueError
MissingTime(data, timestamps) == "t" \notin DOMAIN data /\ ~timestamps.some

\* Mutant: "t" appended instead of prepended.
CrossInputKeys_Append(keys) == keys \o <<"t">>

\* self.input_keys = ["t"] + self.input_keys
CrossInputKeys(keys) == <<"t">> \o keys

\* Mutant: the distinct requested timestamps are counted.
NumTimestampGiven_Unique(timestamps) == Cardinality(Range(timestamps))

\* self.num_timestamp = len(timestamps)
NumTimestampGiven(timestamps) == Len(timestamps)

\* self.num_timestamp = len(np.unique(data["t"]))
NumTimestampInData(data) == Cardinality(Range(data["t"].v))

Restrict(data, keys) == [k \in Range(keys) |-> data[k]]

\* The temporal step of SupervisedConstraint.__init__ (after the check for
\* missing time information).
Temporal(r, data, timestamps) ==
    LET all == r.input_keys \o r.output_keys
    IN IF timestamps.some
       THEN IF "t" \in DOMAIN data
            THEN LET mask == TimeMask(data["t"].v, timestamps.v)
                     kept == ConvertToDict(
                                 MaskRows(ConvertToArray(data, all), mask), all)
                 IN [r EXCEPT !.branch = "filter",
                              !.calls = @ \o <<Call("convert_to_array", 0),
                                               Call("convert_to_dict", 0)>>,
                              !.input = Restrict(kept, r.input_keys),
                              !.label = Restrict(kept, r.output_keys),
                              !.num_timestamp = NumTimestampGiven(timestamps.v)]
            ELSE LET ik == CrossInputKeys(r.input_keys)
                     comb == ConvertToDict(
                                 CombineArrayWithTime(ConvertToArray(data, all),
                                                      timestamps.v),
                                 ik \o r.output_keys)
                 IN [r EXCEPT !.branch = "cross",
                              !.calls = @ \o <<Call("convert_to_array", 0),
                                               Call("combine_array_with_time", 0),
                                               Call("convert_to_dict", 0)>>,
                              !.input_keys = ik,
                              !.input = Restrict(comb, ik),
                              !.label = Restrict(comb, r.output_keys),
                              !.num_timestamp = NumTimestampGiven(timestamps.v)]
       ELSE [r EXCEPT !.branch = "passthrough",
                      !.input = Restrict(data, r.input_keys),
                      !.label = Restrict(data, r.output_keys),
                      !.num_timestamp = NumTimestampInData(data)]

UnsupportedFile == [type |-> "NotImplementedError", about |-> "file format"]

MissingTimeError == [type |-> "ValueError", about |-> "time"]

\* SupervisedConstraint.__init__
SupervisedInit(a) ==
    LET r0 == [pc |-> "new",
               input_keys |-> AliasKeys(a.input_keys, a.alias_dict),
               output_keys |-> AliasKeys(a.label_keys, a.alias_dict),
               input |-> EmptyMap, label |-> EmptyMap, weight |-> EmptyMap,
               num_timestamp |-> 0, branch |-> "none",
               calls |-> <<>>, err |-> NoErr]
        data == LoadCsvFile(a.times, a.input_keys \o a.label_keys, a.alias_dict)
        r1 == [r0 EXCEPT !.calls = @ \o <<Call("load_csv_file", 0)>>]
        r2 == Temporal(r1, data, a.timestamps)
        wts == ResolveWeights(a.weight_dict, r2.input, r2.input_keys[1],
                              r2.label, r2.output_keys)
        r3 == [r2 EXCEPT !.weight = wts.map]
    IN IF ~EndsWithCsv(a.data_file) THEN Raise(r0, UnsupportedFile)
       ELSE IF MissingTime(data, a.timestamps) THEN Raise(r1, MissingTimeError)
       ELSE IF wts.err # NoErr THEN Raise(r3, wts.err)
       ELSE Package(r3, a.cfg.dataset)

\* --------------------------------------------------------------- arguments
Specs(keys) == {[k |-> key, s |-> sp] : key \in keys, sp \in ValueSpecs}

\* label_dict: at most two entries, in insertion order
LabelDicts ==
    {<<>>} \cup {<<e>> : e \in Specs({"u"})}
           \cup {<<e, f>> : e \in Specs({"u"}), f \in Specs({"v"})}

\* weight_dict: None, empty, or one entry (possibly for a key that is no
\* label)
None == [some |-> FALSE]
SomeDict(x) == [some |-> TRUE, d |-> x]
SomeList(x) == [some |-> TRUE, v |-> x]

WeightDicts ==
    {None, SomeDict(<<>>)} \cup {SomeDict(<<e>>) : e \in Specs({"u", "v", "w"})}

BoundaryCfgs ==
    {[batch_size |-> b, iters_per_epoch |-> i, dataset |-> d] :
        b \in 1..MaxBatch, i \in 1..MaxIters, d \in DatasetNames}

BoundaryArgs ==
    {[label_dict |-> l, geom |-> g, cfg |-> c, weight_dict |-> w] :
        l \in LabelDicts, g \in Geoms, c \in BoundaryCfgs, w \in WeightDicts}

SeqsUpTo(S, n) == UNION {[1..m -> S] : m \in 1..n}

\* 0.0, 2e-8, 1.00001001 and 1.00001002 in units of 1e-8
TimeVals == {0, 2, 100001001, 100001002}

\* 0.0 and 1.0
StampVals == {0, 100000000}

TimestampChoices == {None} \cup {SomeList(t) : t \in SeqsUpTo(StampVals, MaxTimestamps)}

AliasDicts == {[k \in {} |-> ""], [k \in {"time"} |-> "t"]}

DataFiles == {[name |-> "data", ext |-> ".csv"], [name |-> "data", ext |-> ".mat"]}

HasTimeColumn(a) ==
    "t" \in Range(AliasKeys(a.input_keys \o a.label_keys, a.alias_dict))

SupervisedArgs ==
    {a \in [data_file : DataFiles,
            input_keys : {<<"x">>, <<"x", "t">>, <<"x", "time">>},
            label_keys : {<<"u">>, <<"u", "v">>},
            alias_dict : AliasDicts,
            cfg : [dataset : DatasetNames],
            weight_dict : WeightDicts,
            timestamps : TimestampChoices,
            times : SeqsUpTo(TimeVals, MaxRows)] :
        HasTimeColumn(a) \/ \A i \in DOMAIN a.times : a.times[i] = 0}

\* ------------------------------------------------------------ state machine
Init ==
    /\ pc = "new"
    /\ \/ variant = "Boundary" /\ args \in BoundaryArgs
       \/ variant = "Supervised" /\ args \in SupervisedArgs
    /\ input_keys = <<>>
    /\ output_keys = <<>>
    /\ input = EmptyMap
    /\ label = EmptyMap
    /\ weight = EmptyMap
    /\ num_timestamp = 0
    /\ branch = "none"
    /\ calls = <<>>
    /\ err = NoErr

Finish(r) ==
    /\ pc' = r.pc
    /\ input_keys' = r.input_keys
    /\ output_keys' = r.output_keys
    /\ input' = r.input
    /\ label' = r.label
    /\ weight' = r.weight
    /\ num_timestamp' = r.num_timestamp
    /\ branch' = r.branch
    /\ calls' = r.calls
    /\ err' = r.err
    /\ UNCHANGED <<variant, args>>

ConstructBoundary ==
    /\ pc = "new"
    /\ variant = "Boundary"
    /\ Finish(BoundaryInit(args))

ConstructSupervised ==
    /\ pc = "new"
    /\ variant = "Supervised"
    /\ Finish(SupervisedInit(args))

Next == ConstructBoundary \/ ConstructSupervised

Spec == Init /\ [][Next]_vars

\* ------------------------------------------------------ shared vocabulary
Done == pc = "done"

\* N: the sample count of the packaged input
SampleRows == Len(input[input_keys[1]].v)

IsSampleArray(a) == a.tag = "arr" /\ Len(a.v) = SampleRows

AllOnes(a) == IsSampleArray(a) /\ \A i \in 1..Len(a.v) : a.v[i] = 1

WeightDictKeys == IF args.weight_dict.some
                  THEN Range(DictKeys(args.weight_dict.d)) ELSE {}

\* The value specifications in the order the constructor meets them.
SpecsInOrder ==
    LET w == IF args.weight_dict.some THEN args.weight_dict.d ELSE <<>>
        l == IF variant = "Boundary" THEN args.label_dict ELSE <<>>
    IN [i \in 1..(Len(l) + Len(w)) |->
           IF i <= Len(l) THEN l[i].s ELSE w[i - Len(l)].s]

Supported(sp) == sp.type \in {"float", "str", "sympy", "function"}

\* The rows of the file as loaded, and the rows the constraint packaged.
LoadedKeys == AliasKeys(args.input_keys \o args.label_keys, args.alias_dict)

LoadedRows ==
    [i \in 1..Len(args.times) |->
        [j \in 1..Len(LoadedKeys) |-> FileColumn(LoadedKeys[j], args.times)[i]]]

PackagedRows ==
    [m \in 1..SampleRows |->
        [j \in 1..Len(LoadedKeys) |->
            IF LoadedKeys[j] \in DOMAIN input
            THEN input[LoadedKeys[j]].v[m] ELSE label[LoadedKeys[j]].v[m]]]

\* ------------------------------------------------------------------ claims

\* C1 (as stated): for every constructed constraint the key sets of label
\* and of weight both equal the set of output_keys.
C1_KeySetsAreOutputKeys ==
    Done => /\ DOMAIN label = Range(output_keys)
            /\ DOMAIN weight = Range(output_keys)

\* C1 (amended): the label keys are the output_keys except the "area" that a
\* Mesh BoundaryConstraint appends without resolving a label for it, and the
\* weight keys are the label keys together with every key of weight_dict.
C1_KeySets ==
    Done =>
      LET area == IF /\ variant = "Boundary"
                     /\ args.geom.kind = "Mesh"
                     /\ "area" \notin Range(DictKeys(args.label_dict))
                  THEN {"area"} ELSE {}
      IN /\ DOMAIN label = Range(output_keys) \ area
         /\ DOMAIN weight = (DOMAIN label) \cup WeightDictKeys

C1_Witness ==
    /\ Done
    /\ variant = "Boundary"
    /\ args.geom.kind = "Mesh"
    /\ Len(args.label_dict) = 2
    /\ WeightDictKeys = {"w"}
    /\ DOMAIN weight = {"u", "v", "w"}

\* C2: for every constructed constraint every label and weight value is an
\* array with one element per sample of the input; scalar results are
\* broadcast.
C2_AllValuesPerSample ==
    Done => /\ \A k \in DOMAIN label : IsSampleArray(label[k])
            /\ \A k \in DOMAIN weight : IsSampleArray(weight[k])

\* C3: specifications that are numbers, symbolic expressions (string or
\* tree) or callables are resolved without error, and the first one of any
\* other type fails construction with NotImplementedError naming its type;
\* the same for label_dict and weight_dict.
C3_SupportedTypesResolve ==
    (/\ pc # "new"
     /\ err \notin {UnsupportedFile, MissingTimeError}
     /\ variant = "Boundary" => args.label_dict # <<>>) =>
      IF \A i \in DOMAIN SpecsInOrder : Supported(SpecsInOrder[i])
      THEN err.type \in {"none", "AttributeError"}
      ELSE LET bad == CHOOSE i \in DOMAIN SpecsInOrder :
                         /\ ~Supported(SpecsInOrder[i])
                         /\ \A j \in 1..(i - 1) : Supported(SpecsInOrder[j])
           IN err = InvalidType(SpecsInOrder[bad])

\* C4: on a .csv file the constructor raises the missing-time ValueError
\* exactly when the data has no "t" column and timestamps is None; otherwise
\* it takes the pass-through, filter or cross-product branch.
C4_TemporalBranches ==
    (variant = "Supervised" /\ pc # "new" /\ EndsWithCsv(args.data_file)) =>
      /\ err = MissingTimeError <=>
            (~HasTimeColumn(args) /\ ~args.timestamps.some)
      /\ branch = IF HasTimeColumn(args)
                  THEN (IF args.timestamps.some THEN "filter" ELSE "passthrough")
                  ELSE (IF args.timestamps.some THEN "cross" ELSE "none")

C4_Witness ==
    /\ pc = "failed"
    /\ variant = "Supervised"
    /\ err = MissingTimeError
    /\ ~HasTimeColumn(args)
    /\ args.timestamps = None

\* C5: with a time column and explicit timestamps, the packaged rows are
\* exactly the loaded rows whose time is close to some requested timestamp,
\* in their original order, every column filtered alike.
C5_FilterKeepsMatchingRows ==
    (Done /\ branch = "filter") =>
      LET keep == {i \in 1..Len(args.times) :
                     \E j \in 1..Len(args.timestamps.v) :
                        IsClose(args.times[i], args.timestamps.v[j])}
          nth(m) == CHOOSE i \in keep : Cardinality({j \in keep : j < i}) = m - 1
      IN /\ SampleRows = Cardinality(keep)
         /\ \A k \in DOMAIN input : Len(input[k].v) = Cardinality(keep)
         /\ \A k \in DOMAIN label : Len(label[k].v) = Cardinality(keep)
         /\ DOMAIN input = Range(input_keys)
         /\ DOMAIN label = Range(output_keys)
         /\ \A m \in 1..Cardinality(keep) : PackagedRows[m] = LoadedRows[nth(m)]

C5_Witness ==
    /\ Done
    /\ branch = "filter"
    /\ args.timestamps.v = <<0, 100000000>>
    /\ args.times = <<100001002, 100001001>>
    /\ input["t"].v = <<100001001>>
    /\ input["x"].v = <<12>>

\* C6: without a time column and with T timestamps, the packaged data has
\* N * T rows, every (row, timestamp) pair once, input gains "t", input_keys
\* is "t" followed by the former input keys, and output_keys is unchanged.
C6_CrossProduct ==
    (Done /\ branch = "cross") =>
      LET N == Len(args.times)
          ts == args.timestamps.v
          T == Len(ts)
          rows == [m \in 1..SampleRows |-> <<input["t"].v[m]>> \o PackagedRows[m]]
      IN /\ SampleRows = N * T
         /\ \A k \in DOMAIN input : Len(input[k].v) = N * T
         /\ \A k \in DOMAIN label : Len(label[k].v) = N * T
         /\ \A i \in 1..N, j \in 1..T :
               Cardinality({m \in 1..SampleRows :
                               rows[m] = <<ts[j]>> \o LoadedRows[i]})
               = Cardinality({p \in (1..N) \X (1..T) :
                               /\ LoadedRows[p[1]] = LoadedRows[i]
                               /\ ts[p[2]] = ts[j]})
         /\ DOMAIN input = Range(input_keys)
         /\ input_keys = <<"t">> \o AliasKeys(args.input_keys, args.alias_dict)
         /\ output_keys = AliasKeys(args.label_keys, args.alias_dict)

C6_Witness ==
    /\ Done
    /\ branch = "cross"
    /\ Len(args.times) = 2
    /\ args.timestamps.v = <<0, 100000000>>
    /\ input["t"].v = <<0, 0, 100000000, 100000000>>
    /\ input_keys = <<"t", "x", "time">>

\* C7 (as stated): num_timestamp always equals the number of distinct time
\* values present in the packaged input.
C7_NumTimestampIsDistinctTimes ==
    (Done /\ variant = "Supervised") =>
        num_timestamp = Cardinality(Range(input["t"].v))

\* C7 (amended): num_timestamp is the count of requested timestamps when
\* timestamps is given, and the number of distinct values of the data's time
\* column when it is None.
C7_NumTimestamp ==
    (Done /\ variant = "Supervised") =>
        num_timestamp = IF args.timestamps.some
                        THEN Len(args.timestamps.v)
                        ELSE Cardinality(Range(args.times))

C7_Witness ==
    /\ Done
    /\ branch = "filter"
    /\ args.timestamps.v = <<0, 0>>
    /\ num_timestamp = 2
    /\ Cardinality(Range(input["t"].v)) = 1

\* C8: every output key absent from weight_dict has a weight array of ones,
\* one per sample.
C8_DefaultWeightsAreOnes ==
    Done => \A i \in DOMAIN output_keys :
               output_keys[i] \notin WeightDictKeys =>
                  /\ output_keys[i] \in DOMAIN weight
                  /\ AllOnes(weight[output_keys[i]])

\* C9: a construction that raises never reaches the base initializer, and a
\* file that is not .csv is rejected before the file is read, before the
\* temporal step and before any weight is resolved.
C9_FailFast ==
    /\ pc = "failed" =>
          /\ err.type \in {"NotImplementedError", "ValueError",
                           "AttributeError", "StopIteration"}
          /\ \A i \in DOMAIN calls : calls[i].fn # "base_init"
    /\ (variant = "Supervised" /\ pc # "new" /\ ~EndsWithCsv(args.data_file)) =>
          /\ pc = "failed"
          /\ err = UnsupportedFile
          /\ calls = <<>>
          /\ branch = "none"
          /\ weight = EmptyMap

C9_Witness ==
    /\ pc = "failed"
    /\ err.type = "AttributeError"
    /\ variant = "Supervised"
    /\ branch = "cross"
    /\ DOMAIN weight = {"u", "v", "w"}

\* C10: sample_boundary is called once, with batch_size * iters_per_epoch,
\* and the packaged "area" is the sampled area times iters_per_epoch, every
\* other sampled field unchanged.
C10_SampleOnceAreaScaledOnce ==
    (variant = "Boundary" /\ pc # "new") =>
      LET n == args.cfg.batch_size * args.cfg.iters_per_epoch
          sampled == SampleBoundary(args.geom, n)
      IN /\ Cardinality({i \in DOMAIN calls : calls[i].fn = "sample_boundary"}) = 1
         /\ \A i \in DOMAIN calls :
               calls[i].fn = "sample_boundary" => calls[i].n = n
         /\ Done =>
               /\ DOMAIN input = DOMAIN sampled
               /\ \A k \in DOMAIN input :
                     IF k = "area"
                     THEN /\ Len(input[k].v) = n
                          /\ \A i \in 1..n :
                                input[k].v[i] =
                                   sampled[k].v[i] * args.cfg.iters_per_epoch
                     ELSE input[k] = sampled[k]

C10_Witness ==
    /\ Done
    /\ variant = "Boundary"
    /\ args.geom.kind = "Mesh"
    /\ args.cfg.batch_size = 2
    /\ args.cfg.iters_per_epoch = 2
    /\ input["area"].v = <<4, 6, 8, 10>>

====
